---- MODULE Spec2Model ----
(***************************************************************************)
(* Model of airflow_valohai_plugin/hooks/valohai_hook.py: the ValohaiHook  *)
(* REST client (one HTTP request per method, plus the composite            *)
(* submit_execution with its poll loop) and the standalone helper          *)
(* download_execution_outputs.                                             *)
(*                                                                         *)
(* Conventions                                                             *)
(*   - Python's None is the string "None" for string-valued data (ids,     *)
(*     names, commits, branches).                                          *)
(*   - Python strings that the code inspects character by character        *)
(*     (output names, regular expressions, directory paths) are sequences  *)
(*     of one-character strings; the empty sequence is the falsy value     *)
(*     (None and '' take the same branch of `if pattern`).                 *)
(*   - str.format is modelled by Format: the template together with the    *)
(*     argument that fills its placeholder.                                *)
(*   - `log` is the sequence of external calls the code has made so far    *)
(*     (requests.get, requests.post, time.sleep, urlretrieve), with their  *)
(*     arguments.                                                          *)
(*   - Every request is answered with well-formed JSON of the shape the    *)
(*     code reads; transport failures and malformed answers, which the     *)
(*     code does not handle, are outside the model.                        *)
(***************************************************************************)
EXTENDS Integers, Sequences, FiniteSets, TLC

\* ------------------------------------------------------------------ bounds
MaxListing == 2     \* longest projects / repositories / commits listing
MaxPolls   == 3     \* most iterations of the poll loop that are explored
MaxOutputs == 2     \* longest outputs list of an execution
MaxPattern == 2     \* longest regular expression (in tokens)

\* --------------------------------------------------------------- constants
LIST_PROJECTS_ENDPOINT         == "api/v0/projects/"
LIST_REPOSITORIES_ENDPOINT     == "api/v0/repositories/"
LIST_COMMITS_ENDPOINT          == "api/v0/commits/"
SUBMIT_EXECUTION_ENDPOINT      == "api/v0/executions/"
GET_EXECUTION_DETAILS_ENDPOINT == "api/v0/executions/{execution_id}/"
FETCH_REPOSITORY_ENDPOINT      == "api/v0/projects/{project_id}/fetch/"
SET_EXECUTION_TAGS_ENDPOINT    == "api/v0/executions/{execution_id}/tags/"

incomplete_execution_statuses == {"created", "queued", "started", "stopping"}
fail_execution_statuses       == {"error", "crashed", "stopped"}
success_execution_statuses    == {"complete"}

ListingLimit == 10000
DefaultPollingPeriod == 30

None == "None"

\* ------------------------------------------------------------ input domains
Tokens       == {"tok1"}
Extras       == {[region |-> "eu"]} \cup {[token |-> t] : t \in Tokens}
Host         == "app.valohai.com"
ProjectNames == {"a", "b"}
ProjectIds   == {"p1", "p2"}
RepoIds      == {"r1", "r2"}
CommitIds    == {"c1", "c2"}
Refs         == {"master", "dev"}
ExecIds      == {"e1", "e2"}
Branches     == {None, "", "master"}
CommitArgs   == {None, "c0"}
TagLists     == {<<>>, <<"nightly">>}
PollingPeriods == {DefaultPollingPeriod, 5}
Statuses     == incomplete_execution_statuses \cup fail_execution_statuses
                  \cup success_execution_statuses \cup {"unknown"}
StepName     == "train"
InputsArg    == [data |-> "s3://bucket/data"]
ParametersArg == [epochs |-> 3]
EnvironmentArg == "env1"

SeqsUpTo(S, n) == UNION {[1..k -> S] : k \in 0..n}

Projects     == [id : ProjectIds, name : ProjectNames]
Repositories == [id : RepoIds, project : [id : ProjectIds]]
Commits      == {c \in [identifier : CommitIds, repository : RepoIds, ref : Refs] :
                   c.identifier = "c2" => (c.repository = "r1" /\ c.ref = "master")}

OutputNames  == {<<"m">>, <<"l", "m">>, <<"m", "l">>}
OutputUrl(name) == <<"https://s3/", name>>
Outputs      == {[name |-> n, url |-> OutputUrl(n)] : n \in OutputNames}
OutputLists  == SeqsUpTo(Outputs, MaxOutputs)
ReTokens     == {"^", "$", ".", "m", "l"}
Patterns     == SeqsUpTo(ReTokens, MaxPattern)
TargetDir    == <<"d">>

\* Execution details the server may answer with.  An execution that has not
\* finished has produced no outputs yet.
DetailsOutputs == {<<>>, <<[name |-> <<"m">>, url |-> OutputUrl(<<"m">>)]>>}
DetailsPayloads ==
  {d \in [id : ExecIds, status : Statuses, outputs : DetailsOutputs,
          urls : {[display |-> "https://app/e"]}] :
     d.status \in incomplete_execution_statuses => d.outputs = <<>>}
PostResponses == [id : ExecIds, urls : {[display |-> "https://app/e"]}]

\* ------------------------------------------------------------ Python helpers
\* str.format with one placeholder: the template and the value that fills it.
Format(template, arg) == <<template, arg>>

\* Truth value of a str-or-None argument (`if branch:`).
Truthy(x) == x # None /\ x # ""

\* Truth value of a list / character sequence (`if tags:`, `if pattern`).
TruthySeq(s) == s # <<>>

VARIABLES
  self,                    \* the hook object: attribute name -> value
  op,                      \* the operation the caller invoked
  pc,                      \* position of the running operation
  project_name, commit_arg, branch, tags, polling_period_seconds,  \* arguments
  project_id, repository_id, commit, execution_id,                 \* locals
  response,                \* json of the latest HTTP response
  execution_details,       \* local of submit_execution's loop / xcom value
  ret,                     \* value returned by the latest lookup method
  result,                  \* json value returned by the invoked operation
  exc,                     \* exception that ended the operation, if any
  log,                     \* external calls made so far, in order
  polls,                   \* iterations of the poll loop started
  pattern, path, idx       \* download_execution_outputs: arguments, loop index

vars == <<self, op, pc, project_name, commit_arg, branch, tags,
          polling_period_seconds, project_id, repository_id, commit,
          execution_id, response, execution_details, ret, result, exc, log,
          polls, pattern, path, idx>>

NoExc      == [type |-> "None", msg |-> <<>>]
NoResponse == [none |-> TRUE]

\* ------------------------------------------------------------- the hook
\* ValohaiHook.__init__: host always, headers only when the connection's
\* extra holds a token.
Connection(extra) == [host |-> Host, extra_dejson |-> extra]

HookInit(extra) ==
  LET valohai_conn == Connection(extra) IN
    IF "token" \in DOMAIN valohai_conn.extra_dejson
      THEN [valohai_conn |-> valohai_conn,
            host |-> valohai_conn.host,
            headers |-> [Authorization |->
                           Format("Token {}", valohai_conn.extra_dejson.token)]]
      ELSE [valohai_conn |-> valohai_conn,
            host |-> valohai_conn.host]

\* 'https://{host}/{endpoint}'.format(host=self.host, endpoint=...)
\* The endpoint is <<name>> or the Format of a template.
Url(endpoint) == [host |-> self.host, endpoint |-> endpoint]

\* Reading self.headers: an AttributeError when __init__ did not set it.
HasHeaders == "headers" \in DOMAIN self

AttributeError(attr) ==
  [type |-> "AttributeError",
   msg  |-> Format("'ValohaiHook' object has no attribute '{}'", attr)]

AirflowException(msg) == [type |-> "AirflowException", msg |-> msg]

\* The operation ends with an uncaught exception; nothing else changes.
Raise(e) ==
  /\ exc' = e
  /\ pc' = "raised"

\* requests.get / requests.post as recorded in the log.
Get(url, params) ==
  [call |-> "requests.get", url |-> url, headers |-> self.headers,
   params |-> params]

Post(url, json) ==
  [call |-> "requests.post", url |-> url, headers |-> self.headers,
   json |-> json]

PostNoBody(url) ==
  [call |-> "requests.post", url |-> url, headers |-> self.headers]

SleepCall(seconds) == [call |-> "time.sleep", seconds |-> seconds]

UrlRetrieve(url, filename) ==
  [call |-> "urlretrieve", url |-> url, filename |-> filename]

\* ------------------------------------------------------------ the lookups
\* Variant: the loop has no early return and answers with the last match.
RECURSIVE ProjectLoop_LastMatch(_, _, _)
ProjectLoop_LastMatch(results, i, name) ==
  IF i > Len(results) THEN None
  ELSE LET later == ProjectLoop_LastMatch(results, i + 1, name) IN
         IF later # None THEN later
         ELSE IF results[i].name = name THEN results[i].id
         ELSE None

\* Variant: the id of the entry looked at last leaks out when nothing
\* matches.
RECURSIVE ProjectLoop_LeakLast(_, _, _)
ProjectLoop_LeakLast(results, i, name) ==
  IF i > Len(results) THEN None
  ELSE IF results[i].name = name \/ i = Len(results) THEN results[i].id
  ELSE ProjectLoop_LeakLast(results, i + 1, name)

\* for project in results: if project['name'] == project_name: return id
RECURSIVE ProjectLoop(_, _, _)
ProjectLoop(results, i, name) ==
  IF i > Len(results) THEN None
  ELSE IF results[i].name = name THEN results[i].id
  ELSE ProjectLoop(results, i + 1, name)

\* for repository in results: if repository['project']['id'] == project_id
RECURSIVE RepositoryLoop(_, _, _)
RepositoryLoop(results, i, pid) ==
  IF i > Len(results) THEN None
  ELSE IF results[i].project.id = pid THEN results[i].id
  ELSE RepositoryLoop(results, i + 1, pid)

\* for commit in results: if repository matches and ref == branch
RECURSIVE CommitLoop(_, _, _, _)
CommitLoop(results, i, rid, br) ==
  IF i > Len(results) THEN None
  ELSE IF results[i].repository = rid /\ results[i].ref = br
    THEN results[i].identifier
  ELSE CommitLoop(results, i + 1, rid, br)

\* --------------------------------------------- download_execution_outputs
\* re.match(pattern, name) for patterns built from literal characters, '.',
\* '^' and '$': the pattern must match a prefix of name starting at its first
\* character ('^' holds only there, '$' only at the end of name).
RECURSIVE ReMatchFrom(_, _, _, _)
ReMatchFrom(p, i, s, j) ==
  IF i > Len(p) THEN TRUE
  ELSE IF p[i] = "^" THEN j = 1 /\ ReMatchFrom(p, i + 1, s, j)
  ELSE IF p[i] = "$" THEN j = Len(s) + 1 /\ ReMatchFrom(p, i + 1, s, j)
  ELSE IF p[i] = "." THEN j <= Len(s) /\ ReMatchFrom(p, i + 1, s, j + 1)
  ELSE j <= Len(s) /\ s[j] = p[i] /\ ReMatchFrom(p, i + 1, s, j + 1)

ReMatch(p, s) == ReMatchFrom(p, 1, s, 1)

\* os.path.join(path, name) on a POSIX system.
OsPathJoin(dir, name) ==
  IF name # <<>> /\ name[1] = "/" THEN name
  ELSE IF dir = <<>> \/ dir[Len(dir)] = "/" THEN dir \o name
  ELSE dir \o <<"/">> \o name

\* Variant: the `not` is missing, so matching outputs are the ignored ones.
Ignored_Inverted(pat, output) == TruthySeq(pat) /\ ReMatch(pat, output.name)

\* `if pattern and not re.match(pattern, output['name'])`: the output is
\* ignored.
Ignored(pat, output) == TruthySeq(pat) /\ ~ReMatch(pat, output.name)

\* ------------------------------------------------------- submit_execution
\* Variant: 'stopped' is listed with the incomplete statuses.
Classify_StoppedIncomplete(status) ==
  IF status \in incomplete_execution_statuses \cup {"stopped"} THEN "continue"
  ELSE IF status \in fail_execution_statuses THEN "fail"
  ELSE IF status \in success_execution_statuses THEN "return"
  ELSE "unhandled"

\* Variant: the success set is misspelt as {'completed'}.
Classify_CompletedTypo(status) ==
  IF status \in incomplete_execution_statuses THEN "continue"
  ELSE IF status \in fail_execution_statuses THEN "fail"
  ELSE IF status \in {"completed"} THEN "return"
  ELSE "unhandled"

\* Variant: 'stopping' is listed with the fail statuses.
Classify_StoppingFails(status) ==
  IF status \in incomplete_execution_statuses \ {"stopping"} THEN "continue"
  ELSE IF status \in fail_execution_statuses \cup {"stopping"} THEN "fail"
  ELSE IF status \in success_execution_statuses THEN "return"
  ELSE "unhandled"

\* Variant: the final else keeps polling instead of raising.
Classify_ElseContinues(status) ==
  IF status \in incomplete_execution_statuses THEN "continue"
  ELSE IF status \in fail_execution_statuses THEN "fail"
  ELSE IF status \in success_execution_statuses THEN "return"
  ELSE "continue"

\* The status classification of the poll loop (the if / elif chain).
Classify(status) ==
  IF status \in incomplete_execution_statuses THEN "continue"
  ELSE IF status \in fail_execution_statuses THEN "fail"
  ELSE IF status \in success_execution_statuses THEN "return"
  ELSE "unhandled"

\* `if branch:` after the project lookup.
AfterProjectLookup(br) ==
  IF Truthy(br) THEN "fetch_repository" ELSE "post_execution"

\* `if tags:` after the POST; otherwise straight into the loop.
AfterPost(tg) ==
  IF TruthySeq(tg) THEN "add_execution_tags" ELSE "sleep"

\* Variant: the loop fetches first and never sleeps before a fetch.
LoopEntry_FetchFirst == "get_execution_details"

\* The loop body starts with time.sleep.
LoopEntry == "sleep"

\* Variant: the payload is built from the caller's commit argument.
Payload_CallerCommit(pid, cm) ==
  [project |-> pid, commit |-> commit_arg, step |-> StepName,
   inputs |-> InputsArg, parameters |-> ParametersArg,
   environment |-> EnvironmentArg]

\* The payload of the execution POST.
Payload(pid, cm) ==
  [project |-> pid, commit |-> cm, step |-> StepName, inputs |-> InputsArg,
   parameters |-> ParametersArg, environment |-> EnvironmentArg]

\* self.polling_period_seconds = polling_period_seconds
SetAttr(obj, name, v) ==
  [a \in DOMAIN obj \cup {name} |-> IF a = name THEN v ELSE obj[a]]

args   == <<project_name, commit_arg, branch, tags, polling_period_seconds>>
locals == <<project_id, repository_id, commit, execution_id>>
dl     == <<pattern, path, idx>>

Init ==
  /\ \E extra \in Extras : self = HookInit(extra)
  /\ op = "none"
  /\ pc = "idle"
  /\ project_name = None
  /\ commit_arg = None
  /\ branch = None
  /\ tags = <<>>
  /\ polling_period_seconds = DefaultPollingPeriod
  /\ project_id = None
  /\ repository_id = None
  /\ commit = None
  /\ execution_id = None
  /\ response = NoResponse
  /\ execution_details = NoResponse
  /\ ret = None
  /\ result = NoResponse
  /\ exc = NoExc
  /\ log = <<>>
  /\ polls = 0
  /\ pattern = <<>>
  /\ path = <<>>
  /\ idx = 1

\* ---------------------------------------------------------------- callers
CallGetProjectId ==
  /\ pc = "idle"
  /\ \E name \in ProjectNames : project_name' = name
  /\ op' = "get_project_id"
  /\ pc' = "get_project_id"
  /\ UNCHANGED <<self, commit_arg, branch, tags, polling_period_seconds,
                 locals, response, execution_details, ret, result, exc, log,
                 polls, dl>>

CallGetRepositoryId ==
  /\ pc = "idle"
  /\ \E pid \in ProjectIds \cup {None} : project_id' = pid
  /\ op' = "get_repository_id"
  /\ pc' = "get_repository_id"
  /\ UNCHANGED <<self, args, repository_id, commit, execution_id, response,
                 execution_details, ret, result, exc, log, polls, dl>>

CallFetchRepository ==
  /\ pc = "idle"
  /\ \E pid \in ProjectIds \cup {None} : project_id' = pid
  /\ op' = "fetch_repository"
  /\ pc' = "fetch_repository"
  /\ UNCHANGED <<self, args, repository_id, commit, execution_id, response,
                 execution_details, ret, result, exc, log, polls, dl>>

CallGetLatestCommit ==
  /\ pc = "idle"
  /\ \E pid \in ProjectIds \cup {None} : project_id' = pid
  /\ \E br \in Refs : branch' = br
  /\ op' = "get_latest_commit"
  /\ pc' = "get_repository_id"
  /\ UNCHANGED <<self, project_name, commit_arg, tags, polling_period_seconds,
                 repository_id, commit, execution_id, response,
                 execution_details, ret, result, exc, log, polls, dl>>

CallGetExecutionDetails ==
  /\ pc = "idle"
  /\ \E eid \in ExecIds : execution_id' = eid
  /\ op' = "get_execution_details"
  /\ pc' = "get_execution_details"
  /\ UNCHANGED <<self, args, project_id, repository_id, commit, response,
                 execution_details, ret, result, exc, log, polls, dl>>

CallAddExecutionTags ==
  /\ pc = "idle"
  /\ \E eid \in ExecIds : execution_id' = eid
  /\ \E tg \in TagLists : tags' = tg
  /\ op' = "add_execution_tags"
  /\ pc' = "add_execution_tags"
  /\ UNCHANGED <<self, project_name, commit_arg, branch,
                 polling_period_seconds, project_id, repository_id, commit,
                 response, execution_details, ret, result, exc, log, polls,
                 dl>>

CallSubmitExecution ==
  /\ pc = "idle"
  /\ \E name \in ProjectNames : project_name' = name
  /\ \E cm \in CommitArgs : commit_arg' = cm /\ commit' = cm
  /\ \E br \in Branches : branch' = br
  /\ \E tg \in TagLists : tags' = tg
  /\ \E secs \in PollingPeriods :
       /\ polling_period_seconds' = secs
       /\ self' = SetAttr(self, "polling_period_seconds", secs)
  /\ op' = "submit_execution"
  /\ pc' = "get_project_id"
  /\ UNCHANGED <<project_id, repository_id, execution_id, response,
                 execution_details, ret, result, exc, log, polls, dl>>

CallDownloadExecutionOutputs ==
  /\ pc = "idle"
  /\ \E pat \in Patterns : pattern' = pat
  /\ \E d \in DetailsPayloads, outs \in OutputLists :
       /\ d.status \in success_execution_statuses
       /\ execution_details' = [d EXCEPT !.outputs = outs]
  /\ path' = TargetDir
  /\ idx' = 1
  /\ op' = "download_execution_outputs"
  /\ pc' = "download"
  /\ UNCHANGED <<self, args, locals, response, ret, result, exc, log, polls>>

\* ----------------------------------------------------------- hook methods
\* Every method reads self.headers while building its request, so on a hook
\* without that attribute it ends with AttributeError before any request.
NoHeaders ==
  /\ ~HasHeaders
  /\ Raise(AttributeError("headers"))
  /\ UNCHANGED <<self, op, args, locals, response, execution_details, ret,
                 result, log, polls, dl>>

\* get_project_id: GET the projects listing, return the first matching id.
GetProjectId ==
  /\ pc = "get_project_id"
  /\ \/ NoHeaders
     \/ /\ HasHeaders
        /\ \E results \in SeqsUpTo(Projects, MaxListing) :
             /\ response' = [results |-> results]
             /\ ret' = ProjectLoop(results, 1, project_name)
        /\ log' = Append(log, Get(Url(<<LIST_PROJECTS_ENDPOINT>>),
                                  [limit |-> ListingLimit]))
        /\ IF op = "submit_execution"
             THEN /\ project_id' = ret'
                  /\ pc' = AfterProjectLookup(branch)
             ELSE /\ pc' = "done"
                  /\ UNCHANGED project_id
        /\ UNCHANGED <<self, op, args, repository_id, commit, execution_id,
                       execution_details, result, exc, polls, dl>>

\* fetch_repository: POST to the project's fetch endpoint, return the json.
FetchRepository ==
  /\ pc = "fetch_repository"
  /\ \/ NoHeaders
     \/ /\ HasHeaders
        /\ log' = Append(log, PostNoBody(
                    Url(Format(FETCH_REPOSITORY_ENDPOINT, project_id))))
        /\ response' = [message |-> "fetched"]
        /\ IF op = "submit_execution"
             THEN /\ pc' = "get_repository_id"
                  /\ UNCHANGED result
             ELSE /\ pc' = "done"
                  /\ result' = response'
        /\ UNCHANGED <<self, op, args, locals, execution_details, ret, exc,
                       polls, dl>>

\* get_repository_id: GET the repositories listing, return the id of the
\* first repository of the project.  Also the first half of
\* get_latest_commit.
GetRepositoryId ==
  /\ pc = "get_repository_id"
  /\ \/ NoHeaders
     \/ /\ HasHeaders
        /\ \E results \in SeqsUpTo(Repositories, MaxListing) :
             /\ response' = [results |-> results]
             /\ ret' = RepositoryLoop(results, 1, project_id)
        /\ log' = Append(log, Get(Url(<<LIST_REPOSITORIES_ENDPOINT>>),
                                  [limit |-> ListingLimit]))
        /\ IF op = "get_repository_id"
             THEN /\ pc' = "done"
                  /\ UNCHANGED repository_id
             ELSE /\ pc' = "list_commits"
                  /\ repository_id' = ret'
        /\ UNCHANGED <<self, op, args, project_id, commit, execution_id,
                       execution_details, result, exc, polls, dl>>

\* get_latest_commit after its repository lookup: GET the commits listing
\* (newest first), return the first commit of the repository and branch.
GetLatestCommit ==
  /\ pc = "list_commits"
  /\ \/ NoHeaders
     \/ /\ HasHeaders
        /\ \E results \in SeqsUpTo(Commits, MaxListing) :
             /\ response' = [results |-> results]
             /\ ret' = CommitLoop(results, 1, repository_id, branch)
        /\ log' = Append(log, Get(Url(<<LIST_COMMITS_ENDPOINT>>),
                                  [limit |-> ListingLimit,
                                   ordering |-> "-commit_time"]))
        /\ IF op = "submit_execution"
             THEN /\ commit' = ret'
                  /\ pc' = "post_execution"
             ELSE /\ pc' = "done"
                  /\ UNCHANGED commit
        /\ UNCHANGED <<self, op, args, project_id, repository_id,
                       execution_id, execution_details, result, exc, polls,
                       dl>>

\* submit_execution: POST the payload, keep the id of the new execution.
PostExecution ==
  /\ pc = "post_execution"
  /\ \/ NoHeaders
     \/ /\ HasHeaders
        /\ log' = Append(log, Post(Url(<<SUBMIT_EXECUTION_ENDPOINT>>),
                                   Payload(project_id, commit)))
        /\ \E r \in PostResponses :
             /\ response' = r
             /\ execution_id' = r.id
        /\ pc' = AfterPost(tags)
        /\ UNCHANGED <<self, op, args, project_id, repository_id, commit,
                       execution_details, ret, result, exc, polls, dl>>

\* add_execution_tags: POST the tags of an execution, return the json.
AddExecutionTags ==
  /\ pc = "add_execution_tags"
  /\ \/ NoHeaders
     \/ /\ HasHeaders
        /\ log' = Append(log, Post(
                    Url(Format(SET_EXECUTION_TAGS_ENDPOINT, execution_id)),
                    [tags |-> tags]))
        /\ response' = [tags |-> tags]
        /\ IF op = "submit_execution"
             THEN /\ pc' = LoopEntry
                  /\ UNCHANGED result
             ELSE /\ pc' = "done"
                  /\ result' = response'
        /\ UNCHANGED <<self, op, args, locals, execution_details, ret, exc,
                       polls, dl>>

\* time.sleep(polling_period_seconds) at the top of the loop body.
Sleep ==
  /\ pc = "sleep"
  /\ polls < MaxPolls
  /\ polls' = polls + 1
  /\ log' = Append(log, SleepCall(polling_period_seconds))
  /\ pc' = "get_execution_details"
  /\ UNCHANGED <<self, op, args, locals, response, execution_details, ret,
                 result, exc, dl>>

\* get_execution_details: GET the execution, return the json.
GetExecutionDetails ==
  /\ pc = "get_execution_details"
  /\ \/ NoHeaders
     \/ /\ HasHeaders
        /\ log' = Append(log, Get(
                    Url(Format(GET_EXECUTION_DETAILS_ENDPOINT, execution_id)),
                    <<>>))
        /\ \E d \in DetailsPayloads : response' = d
        /\ IF op = "submit_execution"
             THEN /\ execution_details' = response'
                  /\ pc' = "classify"
                  /\ UNCHANGED result
             ELSE /\ result' = response'
                  /\ pc' = "done"
                  /\ UNCHANGED execution_details
        /\ UNCHANGED <<self, op, args, locals, ret, exc, polls, dl>>

\* The rest of the loop body: act on execution_details['status'].
ClassifyStatus ==
  /\ pc = "classify"
  /\ LET status == execution_details.status
         outcome == Classify(status) IN
       \/ /\ outcome = "continue"
          /\ pc' = LoopEntry
          /\ UNCHANGED <<result, exc>>
       \/ /\ outcome = "fail"
          /\ Raise(AirflowException(
                     Format("Execution failed with status: {}", status)))
          /\ UNCHANGED result
       \/ /\ outcome = "return"
          /\ result' = execution_details
          /\ pc' = "done"
          /\ UNCHANGED exc
       \/ /\ outcome = "unhandled"
          /\ Raise(AirflowException(
                     Format("Found a not handled status: {}", status)))
          /\ UNCHANGED result
  /\ UNCHANGED <<self, op, args, locals, response, execution_details, ret,
                 log, polls, dl>>

\* One iteration of download_execution_outputs' loop over the outputs.
DownloadOutput ==
  /\ pc = "download"
  /\ idx <= Len(execution_details.outputs)
  /\ LET output == execution_details.outputs[idx] IN
       IF Ignored(pattern, output)
         THEN UNCHANGED log
         ELSE log' = Append(log, UrlRetrieve(output.url,
                                             OsPathJoin(path, output.name)))
  /\ idx' = idx + 1
  /\ UNCHANGED <<self, op, pc, args, locals, response, execution_details,
                 ret, result, exc, polls, pattern, path>>

\* The loop over the outputs is exhausted: the function returns.
DownloadReturn ==
  /\ pc = "download"
  /\ idx > Len(execution_details.outputs)
  /\ pc' = "done"
  /\ UNCHANGED <<self, op, args, locals, response, execution_details, ret,
                 result, exc, log, polls, dl>>

Next ==
  \/ CallGetProjectId
  \/ CallGetRepositoryId
  \/ CallFetchRepository
  \/ CallGetLatestCommit
  \/ CallGetExecutionDetails
  \/ CallAddExecutionTags
  \/ CallSubmitExecution
  \/ CallDownloadExecutionOutputs
  \/ GetProjectId
  \/ FetchRepository
  \/ GetRepositoryId
  \/ GetLatestCommit
  \/ PostExecution
  \/ AddExecutionTags
  \/ Sleep
  \/ GetExecutionDetails
  \/ ClassifyStatus
  \/ DownloadOutput
  \/ DownloadReturn

Spec == Init /\ [][Next]_vars

\* ================================================================ claims
\* What a log entry is: the call, and for a request the endpoint (template).
Kind(e) ==
  IF e.call \in {"time.sleep", "urlretrieve"} THEN <<e.call>>
  ELSE <<e.call, e.url.endpoint[1]>>

ListProjects     == <<"requests.get", LIST_PROJECTS_ENDPOINT>>
ListRepositories == <<"requests.get", LIST_REPOSITORIES_ENDPOINT>>
ListCommits      == <<"requests.get", LIST_COMMITS_ENDPOINT>>
FetchRepo        == <<"requests.post", FETCH_REPOSITORY_ENDPOINT>>
SubmitPost       == <<"requests.post", SUBMIT_EXECUTION_ENDPOINT>>
SetTags          == <<"requests.post", SET_EXECUTION_TAGS_ENDPOINT>>
DetailsFetch     == <<"requests.get", GET_EXECUTION_DETAILS_ENDPOINT>>

LastKind == IF log = <<>> THEN <<>> ELSE Kind(log[Len(log)])
Has(kind) == \E i \in DOMAIN log : Kind(log[i]) = kind
Count(kind) == Cardinality({i \in DOMAIN log : Kind(log[i]) = kind})

Submitting == op = "submit_execution"

\* The poll loop has fetched details and acted on their status.
Classified ==
  /\ Submitting
  /\ execution_details # NoResponse
  /\ pc # "classify"

\* C1: once the poll loop has acted on a status of the fail set, the
\* operation has ended with an AirflowException whose message carries that
\* status, and the details fetch that returned it is the last call made.
C1_FailStatusRaises ==
  (Classified /\ execution_details.status \in fail_execution_statuses) =>
     /\ pc = "raised"
     /\ exc.type = "AirflowException"
     /\ \E i \in DOMAIN exc.msg : exc.msg[i] = execution_details.status
     /\ result = NoResponse
     /\ LastKind = DetailsFetch
     /\ response = execution_details
     /\ Count(DetailsFetch) = polls

C1_Witness ==
  /\ Submitting
  /\ pc = "raised"
  /\ polls = 2
  /\ execution_details.status = "stopped"
  /\ exc = AirflowException(<<"Execution failed with status: {}", "stopped">>)

\* C2: once the poll loop has acted on the status 'complete', the operation
\* has returned, without an exception, exactly the json of the details fetch
\* that carried it, and that fetch is the last call made.
C2_CompleteReturnsDetails ==
  (Classified /\ execution_details.status \in success_execution_statuses) =>
     /\ pc = "done"
     /\ exc = NoExc
     /\ result = response
     /\ result.id = response.id
     /\ result.status = "complete"
     /\ result.outputs = response.outputs
     /\ result.urls = response.urls
     /\ LastKind = DetailsFetch

C2_Witness ==
  /\ Submitting
  /\ pc = "done"
  /\ polls = 2
  /\ result.status = "complete"
  /\ result.outputs # <<>>
  /\ result.id # execution_id

\* C3: after the poll loop has acted on a status of the incomplete set, no
\* exception is raised and nothing is returned; the loop is about to sleep or
\* has slept the poll interval and is about to fetch again, every details
\* fetch so far was for the submitted execution's id, and the number of
\* fetches equals the number of loop iterations however many there were.
C3_IncompleteKeepsPolling ==
  (Classified /\ execution_details.status \in incomplete_execution_statuses) =>
     /\ exc = NoExc
     /\ result = NoResponse
     /\ pc \in {"sleep", "get_execution_details"}
     /\ pc = "sleep" =>
          /\ LastKind = DetailsFetch
          /\ Count(DetailsFetch) = polls
     /\ pc = "get_execution_details" =>
          /\ log[Len(log)] = SleepCall(polling_period_seconds)
          /\ Count(DetailsFetch) = polls - 1
     /\ \A i \in DOMAIN log :
          Kind(log[i]) = DetailsFetch =>
            log[i].url.endpoint = <<GET_EXECUTION_DETAILS_ENDPOINT, execution_id>>

C3_Witness ==
  /\ Submitting
  /\ pc = "get_execution_details"
  /\ polls = MaxPolls
  /\ Count(DetailsFetch) = MaxPolls - 1
  /\ execution_details.status = "stopping"
  /\ exc = NoExc

\* C4: once the poll loop has acted on a status outside the incomplete, fail
\* and success sets, the operation has ended with an AirflowException: it
\* neither keeps polling nor returns details.
C4_UnknownStatusRaises ==
  (/\ Classified
   /\ execution_details.status \notin
        (incomplete_execution_statuses \cup fail_execution_statuses
           \cup success_execution_statuses)) =>
     /\ pc = "raised"
     /\ exc.type = "AirflowException"
     /\ result = NoResponse
     /\ LastKind = DetailsFetch

C4_Witness ==
  /\ Submitting
  /\ pc = "raised"
  /\ execution_details # NoResponse
  /\ execution_details.status = "unknown"
  /\ exc.type = "AirflowException"

\* The json bodies of the execution POSTs made so far.
PostedPayloads == {log[i].json : i \in {j \in DOMAIN log : Kind(log[j]) = SubmitPost}}

\* C5: with a non-empty branch the POSTed payload's commit is the value
\* get_latest_commit returned (ret, the latest lookup's return value),
\* whatever commit the caller passed; with an empty or absent branch it is the
\* caller's commit, and no repository fetch, repositories listing or commits
\* listing is requested.
C5_BranchOverridesCommit ==
  Submitting =>
    /\ \A payload \in PostedPayloads :
         payload.commit = IF Truthy(branch) THEN ret ELSE commit_arg
    /\ Truthy(branch) /\ PostedPayloads # {} =>
         /\ Has(FetchRepo)
         /\ Has(ListCommits)
    /\ ~Truthy(branch) =>
         /\ ~Has(FetchRepo)
         /\ ~Has(ListRepositories)
         /\ ~Has(ListCommits)

C5_Witness ==
  /\ Submitting
  /\ branch = "master"
  /\ commit_arg = "c0"
  /\ LastKind = SubmitPost
  /\ ret = "c2"
  /\ log[Len(log)].json.commit = "c2"

\* First-match lookup, stated over the listing: `found` is absent and no
\* entry has the name, or `found` is the id of an entry with the name that no
\* entry with the name precedes.
FirstProjectNamed(results, name, found) ==
  \/ /\ found = None
     /\ \A i \in DOMAIN results : results[i].name # name
  \/ \E i \in DOMAIN results :
       /\ results[i].name = name
       /\ results[i].id = found
       /\ \A j \in 1..(i - 1) : results[j].name # name

\* C6: when get_project_id has answered (called directly or as the first
\* step of submit_execution), its return value is the id of the first entry
\* of the listing whose name equals the queried name, and None when no entry
\* has that name (the empty listing included).
C6_FirstMatchingProject ==
  LastKind = ListProjects =>
    /\ FirstProjectNamed(response.results, project_name, ret)
    /\ Submitting => project_id = ret
    /\ response.results = <<>> => ret = None

C6_Witness ==
  /\ op = "get_project_id"
  /\ pc = "done"
  /\ project_name = "b"
  /\ response.results = <<[id |-> "p2", name |-> "b"], [id |-> "p1", name |-> "b"]>>
  /\ ret = "p2"

\* re.match for the modelled patterns, stated position by position: the
\* token at pattern position i stands at name position 1 + (number of
\* character-consuming tokens before i).
Consumed(p, i) == Cardinality({k \in 1..(i - 1) : p[k] \notin {"^", "$"}})

PrefixMatches(p, s) ==
  \A i \in DOMAIN p :
    LET j == 1 + Consumed(p, i) IN
      CASE p[i] = "^" -> j = 1
        [] p[i] = "$" -> j = Len(s) + 1
        [] p[i] = "." -> j <= Len(s)
        [] OTHER      -> j <= Len(s) /\ s[j] = p[i]

\* The outputs among the first n that the pattern selects (all of them when
\* no pattern is given), in listing order.
Selected(outs, n, pat) ==
  SelectSeq(SubSeq(outs, 1, n),
            LAMBDA o : pat = <<>> \/ PrefixMatches(pat, o.name))

\* C7: at every point of download_execution_outputs the downloads issued
\* are, in listing order, exactly the outputs already visited whose name the
\* pattern matches (all of them without a pattern), each fetched from its
\* own url; when the function returns every output has been visited.
C7_DownloadsMatchingOutputs ==
  op = "download_execution_outputs" =>
    LET outs == execution_details.outputs
        want == Selected(outs, idx - 1, pattern) IN
      /\ Len(log) = Len(want)
      /\ \A i \in DOMAIN log :
           /\ log[i].call = "urlretrieve"
           /\ log[i].url = want[i].url
           /\ log[i].filename = path \o <<"/">> \o want[i].name
      /\ pc = "done" => idx = Len(outs) + 1
      /\ exc = NoExc

C7_Witness ==
  /\ op = "download_execution_outputs"
  /\ pc = "done"
  /\ pattern = <<"^", "m">>
  /\ execution_details.outputs =
       <<[name |-> <<"l", "m">>, url |-> OutputUrl(<<"l", "m">>)],
         [name |-> <<"m", "l">>, url |-> OutputUrl(<<"m", "l">>)]>>
  /\ log = <<UrlRetrieve(OutputUrl(<<"m", "l">>), <<"d", "/", "m", "l">>)>>

\* C8: a hook built from a connection with a token sends
\* 'Authorization: Token <token>' on every request, and a hook built from a
\* connection without one completes its operations, sending its requests
\* without that header, instead of failing for want of the headers.
C8_TokenOptional ==
  LET extra == self.valohai_conn.extra_dejson
      requests == {i \in DOMAIN log : log[i].call \in {"requests.get", "requests.post"}} IN
    /\ "token" \in DOMAIN extra =>
         \A i \in requests :
           log[i].headers = [Authorization |-> <<"Token {}", extra.token>>]
    /\ "token" \notin DOMAIN extra =>
         /\ exc.type # "AttributeError"
         /\ \A i \in requests : "Authorization" \notin DOMAIN log[i].headers

\* The calls submit_execution makes before its loop, in order.
Prelude ==
  <<ListProjects>>
    \o (IF Truthy(branch) THEN <<FetchRepo, ListRepositories, ListCommits>>
        ELSE <<>>)
    \o <<SubmitPost>>
    \o (IF TruthySeq(tags) THEN <<SetTags>> ELSE <<>>)

InLoop == pc \in {"sleep", "get_execution_details", "classify"} \/ polls > 0

\* C9: the calls of a submit_execution run are, in order: the projects
\* listing; with a branch, the repository fetch and the commit resolution
\* (repositories listing, commits listing); one execution POST; with tags,
\* one set-tags request for the id the POST returned; then alternately a
\* sleep of the poll interval and a details fetch for that id, sleep first.
\* The loop is entered only after all the calls before it.
C9_RequestOrder ==
  Submitting =>
    /\ \A i \in DOMAIN log :
         IF i <= Len(Prelude) THEN Kind(log[i]) = Prelude[i]
         ELSE IF (i - Len(Prelude)) % 2 = 1
           THEN log[i] = SleepCall(polling_period_seconds)
           ELSE /\ Kind(log[i]) = DetailsFetch
                /\ log[i].url.endpoint[2] = execution_id
    /\ \A i \in DOMAIN log :
         Kind(log[i]) = SetTags =>
           /\ log[i].url.endpoint[2] = execution_id
           /\ log[i].json = [tags |-> tags]
    /\ InLoop => Len(log) >= Len(Prelude)
    /\ Count(SubmitPost) <= 1
    /\ Count(SetTags) <= 1

C9_Witness ==
  /\ Submitting
  /\ pc = "done"
  /\ Truthy(branch)
  /\ TruthySeq(tags)
  /\ Len(log) = 6 + 2 * 2
  /\ Count(SubmitPost) = 1
  /\ Count(SetTags) = 1
  /\ Count(DetailsFetch) = 2

NoProjectNamed(results, name) ==
  \A i \in DOMAIN results : results[i].name # name

NoCommitOn(results, rid, br) ==
  \A i \in DOMAIN results :
    ~(results[i].repository = rid /\ results[i].ref = br)

\* C10: in submit_execution, a project lookup that matches nothing leaves
\* project_id absent and a commit lookup that matches nothing leaves commit
\* absent (replacing the caller's commit); neither raises, the run goes on
\* to its next request, no exception precedes the POST, and the POST carries
\* the absent values in 'project' and 'commit'.
C10_AbsentLookupsReachPost ==
  Submitting =>
    /\ (LastKind = ListProjects /\ NoProjectNamed(response.results, project_name)) =>
         /\ project_id = None
         /\ exc = NoExc
         /\ pc = IF Truthy(branch) THEN "fetch_repository" ELSE "post_execution"
    /\ (LastKind = ListCommits /\ NoCommitOn(response.results, repository_id, branch)) =>
         /\ commit = None
         /\ exc = NoExc
         /\ pc = "post_execution"
    /\ (log # <<>> /\ pc = "raised") => Has(SubmitPost)
    /\ \A payload \in PostedPayloads :
         /\ payload.project = project_id
         /\ payload.commit = commit

C10_Witness ==
  /\ Submitting
  /\ LastKind = SubmitPost
  /\ Truthy(branch)
  /\ commit_arg = "c0"
  /\ log[Len(log)].json.project = None
  /\ log[Len(log)].json.commit = None
  /\ exc = NoExc

====
